---- MODULE Spec2Model ----
(***************************************************************************)
(* Model of the token NetworkHandler of integration/nwo/token/fabric:      *)
(* the Entry registry (GetEntry), the per-node wallet generation           *)
(* (GenerateCryptoMaterial), the artifact generation (GenerateArtifacts)   *)
(* and the extension rendering (GenerateExtension).                        *)
(***************************************************************************)
EXTENDS Integers, Sequences, FiniteSets, TLC

(***************************************************************************)
(* Bounds of the model.                                                    *)
(***************************************************************************)
\* number of handler calls in one behaviour
MaxOps == 2

(***************************************************************************)
(* Inputs: the TMS descriptors the callers may pass, and the FSC topology. *)
(***************************************************************************)
\* "fabtoken" has both generators registered, "custom" only a crypto
\* material generator (GetPublicParamsGenerators returns nil for it)
Drivers == {"fabtoken", "custom"}

TMS(network, channel, namespace, driver, args, private) ==
    [Network |-> network, Channel |-> channel, Namespace |-> namespace,
     Driver |-> driver, PublicParamsGenArgs |-> args, Private |-> private]

\* the descriptors the callers pass: two with the same triple and another
\* driver, two whose triples differ and concatenate to the same string, and
\* one that shares nothing with the others
TMSs ==
    { TMS("a", "bc", "t", "fabtoken", <<>>, FALSE),
      TMS("a", "bc", "t", "custom", <<>>, FALSE),
      TMS("ab", "c", "t", "fabtoken", <<"x", "y">>, TRUE),
      TMS("a", "c", "t", "fabtoken", <<"x", "y">>, TRUE) }

\* fscTopology.Nodes, with the options topology2.ToOptions reads
Nodes ==
    << [Name |-> "org1peer", Issuers |-> <<"alice">>, Owners |-> <<>>,
        Auditor |-> TRUE, Certifier |-> FALSE],
       [Name |-> "org2peer", Issuers |-> <<>>, Owners |-> <<"bob", "carol">>,
        Auditor |-> FALSE, Certifier |-> TRUE] >>

NodeSet == {Nodes[i] : i \in 1..Len(Nodes)}
NodeNames == {n.Name : n \in NodeSet}

NodeNamed(name) == CHOOSE n \in NodeSet : n.Name = name

\* node.ID()
ID(node) == node.Name

Roles == {"Issuer", "Owner", "Auditor", "Certifier"}

\* nil
Nil == [nil |-> TRUE]

\* no node argument
NoNode == "none"

(***************************************************************************)
(* The registry.                                                           *)
(***************************************************************************)
\* tms.Network+tms.Channel+tms.Namespace
Key(tms) == tms.Network \o tms.Channel \o tms.Namespace

Keys == {Key(t) : t \in TMSs}

VARIABLES
    Entries,    \* NetworkHandler.Entries: key -> reference of an Entry (0: absent)
    heap,       \* the Entry instances allocated so far, by reference
    ppDir,      \* whether the public parameters directory exists
    files,      \* the public parameters files: path -> content (Nil: no file)
    returned,   \* every (descriptor, reference) a GetEntry call has returned
    last,       \* the last handler call: its arguments and the steps it completed
    nops,       \* number of handler calls so far
    idp,        \* the identity provider: signers, audit infos and bindings
    idpLast,    \* the last call of the identity provider and what it returned
    par         \* the goroutines that run GenerateCryptoMaterial side by side

\* the state of the handler
handler == <<Entries, heap, ppDir, files, returned, last, nops>>

vars == <<Entries, heap, ppDir, files, returned, last, nops, idp, idpLast, par>>

\* &Wallet{Certifiers: []Identity{}, Issuers: ..., Owners: ..., Auditors: ...}
\* ptr stands for the address of the instance
NewWallet(ptr) ==
    [ptr |-> ptr, Issuers |-> <<>>, Owners |-> <<>>, Auditors |-> <<>>,
     Certifiers |-> <<>>]

\* &Entry{TMS: tms, Wallets: map[string]*Wallet{}}
NewEntry(tms) ==
    [TMS |-> tms, TCC |-> Nil, Wallets |-> [n \in NodeNames |-> Nil]]

\* GetEntry that does not store the Entry it creates
GetEntryNotStored(reg, tms) ==
    IF reg.Entries[Key(tms)] # 0
    THEN [Entries |-> reg.Entries, heap |-> reg.heap, entry |-> reg.Entries[Key(tms)]]
    ELSE [Entries |-> reg.Entries,
          heap |-> Append(reg.heap, NewEntry(tms)),
          entry |-> Len(reg.heap) + 1]

\* GetEntry creating an Entry on every call
GetEntryAlwaysNew(reg, tms) ==
    LET e == Len(reg.heap) + 1 IN
    [Entries |-> [reg.Entries EXCEPT ![Key(tms)] = e],
     heap |-> Append(reg.heap, NewEntry(tms)),
     entry |-> e]

\* GetEntry overwriting the stored descriptor of an Entry it finds
GetEntryOverwriteTMS(reg, tms) ==
    LET k == Key(tms) IN
    IF reg.Entries[k] # 0
    THEN [Entries |-> reg.Entries,
          heap |-> [reg.heap EXCEPT ![reg.Entries[k]].TMS = tms],
          entry |-> reg.Entries[k]]
    ELSE LET e == Len(reg.heap) + 1 IN
         [Entries |-> [reg.Entries EXCEPT ![k] = e],
          heap |-> Append(reg.heap, NewEntry(tms)),
          entry |-> e]

\* NetworkHandler.GetEntry on the registry reg = [Entries, heap]:
\* the registry after the call and the reference returned
GetEntry(reg, tms) ==
    LET k == Key(tms) IN
    IF reg.Entries[k] # 0
    THEN [Entries |-> reg.Entries, heap |-> reg.heap, entry |-> reg.Entries[k]]
    ELSE LET e == Len(reg.heap) + 1 IN
         [Entries |-> [reg.Entries EXCEPT ![k] = e],
          heap |-> Append(reg.heap, NewEntry(tms)),
          entry |-> e]

(***************************************************************************)
(* The collaborators the handler consumes.                                 *)
(***************************************************************************)
\* TokenPlatform.GetPublicParamsGenerators(driver) is not nil
HasPublicParamsGenerator(driver) == driver = "fabtoken"

\* cmGenerator.Generate<Role>Identities(tms, node, names...): one credential
\* for each name, in the order of the names
GenerateIdentities(gen, role, names) ==
    [i \in 1..Len(names) |->
        [ID |-> names[i], Role |-> role, Driver |-> gen, Default |-> FALSE]]

\* cmGenerator.Setup(tms): the root handle
Setup(tms) == [root |-> tms]

\* ppGenerator.Generate(tms, args...)
Generate(tms, args) == [pp |-> tms.Driver, args |-> args]

\* what a write that fails midway leaves of a file
Truncated == [pp |-> "truncated", args |-> <<>>]

\* TokenPlatform.PublicParametersFile(tms)
PublicParametersFile(tms) ==
    <<tms.Network, tms.Channel, tms.Namespace, tms.Driver>>

Paths == {PublicParametersFile(t) : t \in TMSs}

\* Topology().AddFPC(...) with its Ctor, or PrepareTCC(tms)
PrepareChaincode(tms) ==
    IF tms.Private
    THEN [Kind |-> "FPC", Name |-> tms.Namespace, Ctor |-> tms]
    ELSE [Kind |-> "TCC", Name |-> tms.Namespace, Ctor |-> Nil]

(***************************************************************************)
(* Wallet generation.                                                      *)
(***************************************************************************)
\* the names passed to the generator without the node's own id
MultiNamesWithoutSelf(names, node) == names

\* issuers = append(issuers, node.ID()), owners = append(owners, node.ID())
MultiNames(names, node) == Append(names, ID(node))

\* the first record marked as the default one
MarkFirstDefault(ids) == [ids EXCEPT ![1].Default = TRUE]

\* wallet.Issuers[len(wallet.Issuers)-1].Default = true
MarkLastDefault(ids) == [ids EXCEPT ![Len(ids)].Default = TRUE]

\* the roles for which GenerateCryptoMaterial calls the generator for node
ConfiguredRoles(node) ==
    {r \in Roles :
        \/ r = "Issuer" /\ Len(node.Issuers) # 0
        \/ r = "Owner" /\ Len(node.Owners) # 0
        \/ r = "Auditor" /\ node.Auditor
        \/ r = "Certifier" /\ node.Certifier}

\* the order of the role blocks of GenerateCryptoMaterial
RoleOrder == <<"Issuer", "Owner", "Auditor", "Certifier">>

RoleIndex(role) == CHOOSE i \in 1..Len(RoleOrder) : RoleOrder[i] = role

\* the block of role runs to its end when the generator call of role fail
\* panics ("none": no call panics): the blocks before that of fail do
Runs(role, fail) == fail = "none" \/ RoleIndex(role) < RoleIndex(fail)

\* the issuer block, the owner block, the auditor block and the certifier
\* block of GenerateCryptoMaterial, on the wallet w
WithIssuers(w, gen, node, fail) ==
    IF Len(node.Issuers) # 0 /\ Runs("Issuer", fail)
    THEN [w EXCEPT !.Issuers = MarkLastDefault(
             @ \o GenerateIdentities(gen, "Issuer", MultiNames(node.Issuers, node)))]
    ELSE w

\* the owner block without the test of len(o.Owners())
WithOwnersUnconditional(w, gen, node, fail) ==
    IF Runs("Owner", fail)
    THEN [w EXCEPT !.Owners = MarkLastDefault(
             @ \o GenerateIdentities(gen, "Owner", MultiNames(node.Owners, node)))]
    ELSE w

WithOwners(w, gen, node, fail) ==
    IF Len(node.Owners) # 0 /\ Runs("Owner", fail)
    THEN [w EXCEPT !.Owners = MarkLastDefault(
             @ \o GenerateIdentities(gen, "Owner", MultiNames(node.Owners, node)))]
    ELSE w

WithAuditors(w, gen, node, fail) ==
    IF node.Auditor /\ Runs("Auditor", fail)
    THEN [w EXCEPT !.Auditors = [Append(@,
             GenerateIdentities(gen, "Auditor", <<node.Name>>)[1]) EXCEPT ![1].Default = TRUE]]
    ELSE w

WithCertifiers(w, gen, node, fail) ==
    IF node.Certifier /\ Runs("Certifier", fail)
    THEN [w EXCEPT !.Certifiers = [Append(@,
             GenerateIdentities(gen, "Certifier", <<node.Name>>)[1]) EXCEPT ![1].Default = TRUE]]
    ELSE w

\* the wallet a run of GenerateCryptoMaterial leaves behind the pointer it
\* stored in entry.Wallets, when the generator call for role fail panics
WalletAt(ptr, gen, node, fail) ==
    WithCertifiers(
        WithAuditors(
            WithOwners(
                WithIssuers(NewWallet(ptr), gen, node, fail),
                gen, node, fail),
            gen, node, fail),
        gen, node, fail)

\* the wallet stored in a map made anew
StoreWalletInNewMap(r, node, wallet, fail) ==
    [Entries |-> r.Entries,
     heap |-> [r.heap EXCEPT ![r.entry].Wallets =
                  [n \in NodeNames |-> IF n = node.Name THEN wallet ELSE Nil]],
     entry |-> r.entry, failed |-> fail # "none"]

\* entry.Wallets[node.Name] = wallet, on the result r of GetEntry; the wallet
\* is filled through the pointer, so the Entry holds what the run made of it
StoreWallet(r, node, wallet, fail) ==
    [Entries |-> r.Entries,
     heap |-> [r.heap EXCEPT ![r.entry].Wallets[node.Name] = wallet],
     entry |-> r.entry,
     failed |-> fail # "none"]

\* NetworkHandler.GenerateCryptoMaterial on the registry reg
GenerateCryptoMaterial(reg, gen, tms, node, ptr, fail) ==
    StoreWallet(GetEntry(reg, tms), node, WalletAt(ptr, gen, node, fail), fail)

\* one turn of the loop of GenerateArtifacts over fscTopology.Nodes: acc is
\* the result of the turns before, g that of GenerateCryptoMaterial for node i
LoopTurn(acc, g, tms, i) ==
    [Entries |-> g.Entries, heap |-> g.heap,
     rets |-> acc.rets \cup {<<tms, g.entry>>},
     done |-> IF g.failed THEN acc.done ELSE Append(acc.done, Nodes[i].Name),
     failed |-> g.failed]

\* the loop of GenerateArtifacts over fscTopology.Nodes; the generator call
\* of node failNode for role failRole panics and ends the loop (failNode = 0:
\* no call panics)
GenerateAll(reg, gen, tms, op, failNode, failRole) ==
    LET after[i \in 0..Len(Nodes)] ==
            IF i = 0
            THEN [Entries |-> reg.Entries, heap |-> reg.heap, rets |-> {},
                  done |-> <<>>, failed |-> FALSE]
            ELSE IF after[i - 1].failed
            THEN after[i - 1]
            ELSE LoopTurn(after[i - 1],
                          GenerateCryptoMaterial(after[i - 1], gen, tms, Nodes[i],
                              <<op, Nodes[i].Name>>,
                              IF i = failNode THEN failRole ELSE "none"),
                          tms, i)
    IN  after[Len(Nodes)]

(***************************************************************************)
(* Artifact generation.                                                    *)
(***************************************************************************)
\* what may go wrong in one run of GenerateArtifacts: nothing, an error of a
\* step, or a panic of the generator call of one node for one role
NoFailure == [step |-> "none", node |-> 0, role |-> "none"]

Failures(tms) ==
    {NoFailure}
    \cup {[step |-> "Setup", node |-> 0, role |-> "none"]}
    \cup {[step |-> "Wallet", node |-> i, role |-> r] :
            i \in 1..Len(Nodes), r \in Roles}
    \cup (IF HasPublicParamsGenerator(tms.Driver)
          THEN {[step |-> s, node |-> 0, role |-> "none"] :
                  s \in {"Generate", "MkdirAll", "WriteFileOpen", "WriteFile", "Chaincode"}}
          ELSE {})

\* the run goes on after an error of Setup
AbortsExceptSetup(f, step) == f.step = step /\ step # "Setup"

\* Expect(err).NotTo(HaveOccurred()): the run ends at the step that fails
Aborts(f, step) == f.step = step

\* the preparation of the chaincode (AddFPC and TCCCtor, or PrepareTCC) fails
\* and ends the run
PrepareFails(f) == f.step = "Chaincode"

\* the run goes on without a public parameters generator
MissingGeneratorIgnored(tms) == FALSE

\* Expect(ppGenerator).NotTo(BeNil(), ...): the run ends for a driver
\* without a public parameters generator
MissingGenerator(tms) == ~HasPublicParamsGenerator(tms.Driver)

\* a run that has ended
Aborted(s) == [s EXCEPT !.aborted = TRUE]

\* entry := p.GetEntry(tms), on the result r of GetEntry
Begin(r, dir, fls, tms) ==
    [Entries |-> r.Entries, heap |-> r.heap, ppDir |-> dir, files |-> fls,
     rets |-> {<<tms, r.entry>>}, steps |-> <<"GetEntry">>, entry |-> r.entry,
     root |-> Nil, args |-> Nil, ppRaw |-> Nil, aborted |-> FALSE]

\* root, err := cmGenerator.Setup(tms)
SetupStep(s, tms, f) ==
    IF s.aborted THEN s
    ELSE IF Aborts(f, "Setup") THEN Aborted(s)
    ELSE [s EXCEPT !.root = Setup(tms), !.steps = Append(@, "Setup")]

\* the result g of the loop over the nodes, in the run s
AfterLoop(s, g) ==
    [s EXCEPT !.Entries = g.Entries, !.heap = g.heap, !.rets = @ \cup g.rets,
              !.steps = @ \o g.done, !.aborted = g.failed]

\* the run generates no wallet
WalletsStepSkipped(s, tms, op, f) == s

\* for _, node := range fscTopology.Nodes { p.GenerateCryptoMaterial(...) }
WalletsStep(s, tms, op, f) ==
    IF s.aborted THEN s
    ELSE AfterLoop(s, GenerateAll(s, tms.Driver, tms, op,
                                  IF f.step = "Wallet" THEN f.node ELSE 0, f.role))

\* the arguments without the root handle of the crypto material
GenArgsWithoutRoot(root, tms) == tms.PublicParamsGenArgs

\* args := []interface{}{root}; for _, arg := range tms.PublicParamsGenArgs
\* { args = append(args, arg) }
GenArgs(root, tms) == <<root>> \o tms.PublicParamsGenArgs

\* ppGenerator := ...; args := ...; ppRaw, err = ppGenerator.Generate(tms, args...)
GenerateStep(s, tms, f) ==
    IF s.aborted THEN s
    ELSE IF MissingGenerator(tms) THEN Aborted(s)
    ELSE IF Aborts(f, "Generate") THEN Aborted(s)
    ELSE [s EXCEPT !.args = GenArgs(s.root, tms),
                   !.ppRaw = Generate(tms, GenArgs(s.root, tms)),
                   !.steps = Append(@, "Generate")]

\* os.MkdirAll(p.TokenPlatform.PublicParametersDir(), 0766)
MkdirAllStep(s, tms, f) ==
    IF s.aborted THEN s
    ELSE IF Aborts(f, "MkdirAll") THEN Aborted(s)
    ELSE [s EXCEPT !.ppDir = TRUE, !.steps = Append(@, "MkdirAll")]

\* the write leaves the file truncated and reports no error
WriteFileStepTruncating(s, tms, f) ==
    IF s.aborted THEN s
    ELSE IF Aborts(f, "WriteFileOpen") THEN Aborted(s)
    ELSE IF Aborts(f, "WriteFile")
    THEN Aborted([s EXCEPT !.files[PublicParametersFile(tms)] = Truncated])
    ELSE [s EXCEPT !.files[PublicParametersFile(tms)] = Truncated,
                   !.steps = Append(@, "WriteFile")]

\* ioutil.WriteFile(p.TokenPlatform.PublicParametersFile(tms), ppRaw, 0766):
\* it fails before it opens the file, or after it has truncated it
WriteFileStep(s, tms, f) ==
    IF s.aborted THEN s
    ELSE IF Aborts(f, "WriteFileOpen") THEN Aborted(s)
    ELSE IF Aborts(f, "WriteFile")
    THEN Aborted([s EXCEPT !.files[PublicParametersFile(tms)] = Truncated])
    ELSE [s EXCEPT !.files[PublicParametersFile(tms)] = s.ppRaw,
                   !.steps = Append(@, "WriteFile")]

\* the chaincode is prepared and entry.TCC = &TCC{Chaincode: chaincode}
TCCStep(s, tms, f) ==
    IF s.aborted THEN s
    ELSE IF PrepareFails(f) THEN Aborted(s)
    ELSE [s EXCEPT !.heap[s.entry].TCC = [Chaincode |-> PrepareChaincode(tms)],
                   !.steps = @ \o <<"Chaincode", "TCC">>]

\* NetworkHandler.GenerateArtifacts: the state the run leaves, and the steps
\* it completed
GenerateArtifacts(reg, dir, fls, tms, op, f) ==
    TCCStep(
      WriteFileStep(
        MkdirAllStep(
          GenerateStep(
            WalletsStep(
              SetupStep(Begin(GetEntry(reg, tms), dir, fls, tms), tms, f),
              tms, op, f),
            tms, f),
          tms, f),
        tms, f),
      tms, f)

(***************************************************************************)
(* The identity provider (driver.IdentityProvider).                        *)
(***************************************************************************)
Identities == {"a", "b", "c"}

\* what a provider holds for an identity at the start: a signer and audit
\* info ("local"), audit info only ("remote"), or nothing ("unknown")
Kinds == {"local", "remote", "unknown"}

\* a provider whose identities are of the kinds kind[id], with no binding
NewProvider(kind) ==
    [signers |-> [id \in Identities |->
                     IF kind[id] = "local" THEN [signer |-> id] ELSE Nil],
     auditInfos |-> [id \in Identities |->
                     IF kind[id] = "unknown" THEN Nil ELSE [audit |-> id]],
     bound |-> [id \in Identities |-> Nil]]

\* GetSigner(identity) and GetAuditInfo(identity): Nil stands for the error
GetSigner(p, identity) == p.signers[identity]
GetAuditInfo(p, identity) == p.auditInfos[identity]

\* the provider holds nothing for the identity
Unknown(p, identity) ==
    GetSigner(p, identity) = Nil /\ GetAuditInfo(p, identity) = Nil

\* Bind refusing an identity that is bound already
BindOnce(p, id, longTerm) ==
    IF Unknown(p, longTerm) \/ p.bound[id] # Nil
    THEN [idp |-> p, err |-> TRUE]
    ELSE [idp |-> [signers |-> [p.signers EXCEPT ![id] = p.signers[longTerm]],
                   auditInfos |-> [p.auditInfos EXCEPT ![id] = p.auditInfos[longTerm]],
                   bound |-> [p.bound EXCEPT ![id] = [to |-> longTerm]]],
          err |-> FALSE]

\* Bind(id, longTerm): the signer and the audit info of longTerm are
\* associated to id; an error if the provider does not know longTerm
Bind(p, id, longTerm) ==
    IF Unknown(p, longTerm)
    THEN [idp |-> p, err |-> TRUE]
    ELSE [idp |-> [signers |-> [p.signers EXCEPT ![id] = p.signers[longTerm]],
                   auditInfos |-> [p.auditInfos EXCEPT ![id] = p.auditInfos[longTerm]],
                   bound |-> [p.bound EXCEPT ![id] = [to |-> longTerm]]],
          err |-> FALSE]

\* no call of the provider yet
NoCall == [op |-> "none", id |-> "none", longTerm |-> "none", err |-> FALSE,
           again |-> FALSE]

(***************************************************************************)
(* Goroutines: one call of GenerateCryptoMaterial for each node of the     *)
(* topology, for one descriptor, run side by side.                         *)
(***************************************************************************)
\* where a goroutine stands in GenerateCryptoMaterial
\*   "lookup"      before entry, ok := p.Entries[...]          (GetEntry)
\*   "register"    before p.Entries[...] = entry                (GetEntry)
\*   "registering" inside that map assignment
\*   "store"       before entry.Wallets[node.Name] = wallet
\*   "storing"     inside that map assignment
\*   "roles"       before the four role blocks
\*   "done"        returned
Goroutines(tms) ==
    [tms |-> tms,
     pc |-> [g \in NodeNames |-> "lookup"],
     entry |-> [g \in NodeNames |-> 0],
     wEntries |-> {},       \* goroutines inside an assignment to p.Entries
     wWallets |-> {},       \* goroutines inside an assignment to a Wallets map
     overlapped |-> {},     \* goroutines whose assignment overlaps another one
     crashed |-> FALSE]     \* fatal error: concurrent map writes / read and write

\* no goroutine runs
NoGoroutines ==
    [Goroutines(Nil) EXCEPT !.pc = [g \in NodeNames |-> "done"]]

\* the goroutines, other than g, inside an assignment to the Wallets map of
\* the Entry g holds
WalletWriters(q, g) == {h \in q.wWallets \ {g} : q.entry[h] = q.entry[g]}

\* the map access g is about to make is unsynchronized with an assignment
\* to the same map that is in progress: a data race
Races(q, g) ==
    \/ q.pc[g] \in {"lookup", "register"} /\ q.wEntries \ {g} # {}
    \/ q.pc[g] = "store" /\ WalletWriters(q, g) # {}

(***************************************************************************)
(* The handler calls.                                                      *)
(***************************************************************************)
Registry == [Entries |-> Entries, heap |-> heap]

Call(op, tms, node, fail, steps) ==
    [op |-> op, tms |-> tms, node |-> node, fail |-> fail, steps |-> steps]

\* a run a of GenerateArtifacts, with the root handle Setup returned, the
\* arguments the public parameters generator was called with and the bytes
\* it returned (Nil: the run ended before)
ArtifactsCall(tms, f, a) ==
    [op |-> "GenerateArtifacts", tms |-> tms, node |-> NoNode, fail |-> f,
     steps |-> a.steps, root |-> a.root, args |-> a.args, ppRaw |-> a.ppRaw]

\* NewNetworkHandler: Entries is empty
NewNetworkHandler ==
    /\ Entries = [k \in Keys |-> 0]
    /\ heap = <<>>
    /\ ppDir = FALSE
    /\ files = [f \in Paths |-> Nil]
    /\ returned = {}
    /\ last = Call("NewNetworkHandler", Nil, NoNode, NoFailure, <<>>)
    /\ nops = 0

\* the handler, next to an identity provider nobody calls
Init ==
    /\ NewNetworkHandler
    /\ idp = NewProvider([id \in Identities |-> "unknown"])
    /\ idpLast = NoCall
    /\ par = NoGoroutines

\* a caller looks an Entry up
DoGetEntry ==
    /\ nops < MaxOps
    /\ \E tms \in TMSs :
         LET r == GetEntry(Registry, tms) IN
         /\ Entries' = r.Entries
         /\ heap' = r.heap
         /\ returned' = returned \cup {<<tms, r.entry>>}
         /\ last' = Call("GetEntry", tms, NoNode, NoFailure, <<"GetEntry">>)
    /\ nops' = nops + 1
    /\ UNCHANGED <<ppDir, files, idp, idpLast, par>>

\* GenerateExtension: the template reads p.GetEntry(tms).Wallets[node.Name]
DoGenerateExtension ==
    /\ nops < MaxOps
    /\ \E tms \in TMSs, node \in NodeSet :
         LET r == GetEntry(Registry, tms) IN
         /\ Entries' = r.Entries
         /\ heap' = r.heap
         /\ returned' = returned \cup {<<tms, r.entry>>}
         /\ last' = Call("GenerateExtension", tms, node.Name, NoFailure, <<"GetEntry">>)
    /\ nops' = nops + 1
    /\ UNCHANGED <<ppDir, files, idp, idpLast, par>>

\* GenerateCryptoMaterial(cmGenerator, tms, node) called on its own
DoGenerateCryptoMaterial ==
    /\ nops < MaxOps
    /\ \E tms \in TMSs, node \in NodeSet :
       \E fail \in {"none"} \cup ConfiguredRoles(node) :
         LET g == GenerateCryptoMaterial(Registry, tms.Driver, tms, node,
                                         <<nops + 1, node.Name>>, fail) IN
         /\ Entries' = g.Entries
         /\ heap' = g.heap
         /\ returned' = returned \cup {<<tms, g.entry>>}
         /\ last' = Call("GenerateCryptoMaterial", tms, node.Name,
                         IF fail = "none" THEN NoFailure
                         ELSE [step |-> "Wallet", node |-> 0, role |-> fail],
                         IF fail = "none" THEN <<"GetEntry", node.Name>> ELSE <<"GetEntry">>)
    /\ nops' = nops + 1
    /\ UNCHANGED <<ppDir, files, idp, idpLast, par>>

\* GenerateArtifacts(tms)
DoGenerateArtifacts ==
    /\ nops < MaxOps
    /\ \E tms \in TMSs :
       \E f \in Failures(tms) :
         /\ f.step = "Wallet" => f.role \in ConfiguredRoles(Nodes[f.node])
         /\ LET a == GenerateArtifacts(Registry, ppDir, files, tms, nops + 1, f) IN
            /\ Entries' = a.Entries
            /\ heap' = a.heap
            /\ ppDir' = a.ppDir
            /\ files' = a.files
            /\ returned' = returned \cup a.rets
            /\ last' = ArtifactsCall(tms, f, a)
    /\ nops' = nops + 1
    /\ UNCHANGED <<idp, idpLast, par>>

Next ==
    \/ DoGenerateArtifacts
    \/ DoGetEntry
    \/ DoGenerateExtension
    \/ DoGenerateCryptoMaterial

Spec == Init /\ [][Next]_vars

(***************************************************************************)
(* The calls of the identity provider.                                     *)
(***************************************************************************)
\* a provider with any long-term identities registered
InitIdentity ==
    /\ NewNetworkHandler
    /\ idp \in {NewProvider(kind) : kind \in [Identities -> Kinds]}
    /\ idpLast = NoCall
    /\ par = NoGoroutines

\* a caller binds id to longTerm; again: the call before was the same and
\* returned no error
DoBind ==
    /\ \E id, longTerm \in Identities :
         LET b == Bind(idp, id, longTerm) IN
         /\ idp' = b.idp
         /\ idpLast' = [op |-> "Bind", id |-> id, longTerm |-> longTerm,
                        err |-> b.err,
                        again |-> /\ idpLast.op = "Bind"
                                  /\ idpLast.id = id
                                  /\ idpLast.longTerm = longTerm
                                  /\ ~idpLast.err]
    /\ UNCHANGED <<handler, par>>

NextIdentity == DoBind

SpecIdentity == InitIdentity /\ [][NextIdentity]_vars

(***************************************************************************)
(* The steps of the goroutines.                                            *)
(***************************************************************************)
\* what the goroutines leave alone
untouched == <<ppDir, files, returned, last, nops, idp, idpLast>>

\* a handler that has registered the Entry of tms (a GetEntry before the
\* goroutines start, as line 81 of GenerateArtifacts) or has not
InitParallel ==
    /\ ppDir = FALSE
    /\ files = [f \in Paths |-> Nil]
    /\ returned = {}
    /\ last = Call("NewNetworkHandler", Nil, NoNode, NoFailure, <<>>)
    /\ nops = 0
    /\ idp = NewProvider([id \in Identities |-> "unknown"])
    /\ idpLast = NoCall
    /\ \E tms \in TMSs, registered \in BOOLEAN :
         LET empty == [Entries |-> [k \in Keys |-> 0], heap |-> <<>>]
             r == IF registered THEN GetEntry(empty, tms) ELSE empty
         IN  /\ Entries = r.Entries
             /\ heap = r.heap
             /\ par = Goroutines(tms)

\* entry, ok := p.Entries[tms.Network+tms.Channel+tms.Namespace]; if !ok ...
GoLookup(g) ==
    /\ ~par.crashed
    /\ par.pc[g] = "lookup"
    /\ LET e == Entries[Key(par.tms)] IN
       par' = IF e # 0
              THEN [par EXCEPT !.pc[g] = "store", !.entry[g] = e]
              ELSE [par EXCEPT !.pc[g] = "register"]
    /\ UNCHANGED <<Entries, heap, untouched>>

\* entry = &Entry{...}, and the assignment p.Entries[...] = entry begins
GoRegisterBegin(g) ==
    /\ ~par.crashed
    /\ par.pc[g] = "register"
    /\ heap' = Append(heap, NewEntry(par.tms))
    /\ par' = [par EXCEPT !.pc[g] = "registering",
                          !.entry[g] = Len(heap) + 1,
                          !.wEntries = @ \cup {g},
                          !.overlapped = IF Races(par, g)
                                         THEN @ \cup {g} \cup par.wEntries ELSE @]
    /\ UNCHANGED <<Entries, untouched>>

\* the assignment p.Entries[...] = entry ends: the key is bound to the
\* Entry, or, when the assignment overlapped another one, it may be lost
GoRegisterEnd(g) ==
    /\ ~par.crashed
    /\ par.pc[g] = "registering"
    /\ \E lost \in {FALSE} \cup {g \in par.overlapped} :
         Entries' = IF lost THEN Entries
                    ELSE [Entries EXCEPT ![Key(par.tms)] = par.entry[g]]
    /\ par' = [par EXCEPT !.pc[g] = "store",
                          !.wEntries = @ \ {g},
                          !.overlapped = @ \ {g}]
    /\ UNCHANGED <<heap, untouched>>

\* wallet := &Wallet{...}, and the assignment entry.Wallets[node.Name] =
\* wallet begins
GoStoreBegin(g) ==
    /\ ~par.crashed
    /\ par.pc[g] = "store"
    /\ par' = [par EXCEPT !.pc[g] = "storing",
                          !.wWallets = @ \cup {g},
                          !.overlapped = IF Races(par, g)
                                         THEN @ \cup {g} \cup WalletWriters(par, g)
                                         ELSE @]
    /\ UNCHANGED <<Entries, heap, untouched>>

\* the assignment entry.Wallets[node.Name] = wallet ends
GoStoreEnd(g) ==
    /\ ~par.crashed
    /\ par.pc[g] = "storing"
    /\ \E lost \in {FALSE} \cup {g \in par.overlapped} :
         heap' = IF lost THEN heap
                 ELSE [heap EXCEPT ![par.entry[g]].Wallets[g] = NewWallet(<<"go", g>>)]
    /\ par' = [par EXCEPT !.pc[g] = "roles",
                          !.wWallets = @ \ {g},
                          !.overlapped = @ \ {g}]
    /\ UNCHANGED <<Entries, untouched>>

\* the four role blocks, on the wallet of the goroutine; the Entry shows
\* them when its map holds the wallet
GoRoles(g) ==
    /\ ~par.crashed
    /\ par.pc[g] = "roles"
    /\ heap' = IF heap[par.entry[g]].Wallets[g] = Nil THEN heap
               ELSE [heap EXCEPT ![par.entry[g]].Wallets[g] =
                        WalletAt(<<"go", g>>, par.tms.Driver, NodeNamed(g), "none")]
    /\ par' = [par EXCEPT !.pc[g] = "done"]
    /\ UNCHANGED <<Entries, untouched>>

\* the runtime finds a map access that races with an assignment in
\* progress and ends the program
GoFatal(g) ==
    /\ ~par.crashed
    /\ Races(par, g)
    /\ par' = [par EXCEPT !.crashed = TRUE]
    /\ UNCHANGED <<Entries, heap, untouched>>

NextParallel ==
    \E g \in NodeNames :
        \/ GoLookup(g)
        \/ GoRegisterBegin(g)
        \/ GoRegisterEnd(g)
        \/ GoStoreBegin(g)
        \/ GoStoreEnd(g)
        \/ GoRoles(g)
        \/ GoFatal(g)

SpecParallel == InitParallel /\ [][NextParallel]_vars

(***************************************************************************)
(* State functions the properties read.                                    *)
(***************************************************************************)
Range(seq) == {seq[i] : i \in DOMAIN seq}

Triple(tms) == <<tms.Network, tms.Channel, tms.Namespace>>

\* the wallet the Entry registered under key k holds for the node named n
\* (Nil: no Entry, or no wallet)
WalletIn(E, H, k, n) == IF E[k] = 0 THEN Nil ELSE H[E[k]].Wallets[n]

WalletOf(k, n) == WalletIn(Entries, heap, k, n)

\* the contract descriptor of the Entry registered under key k
TCCIn(E, H, k) == IF E[k] = 0 THEN Nil ELSE H[E[k]].TCC

TCCOf(k) == TCCIn(Entries, heap, k)

RoleSeq(w, role) ==
    CASE role = "Issuer" -> w.Issuers
      [] role = "Owner" -> w.Owners
      [] role = "Auditor" -> w.Auditors
      [] role = "Certifier" -> w.Certifiers

\* the last call generated the wallet of the node named n to the end
GeneratedByLast(n) ==
    /\ last.op \in {"GenerateCryptoMaterial", "GenerateArtifacts"}
    /\ n \in Range(last.steps)

(***************************************************************************)
(* C1: two GetEntry calls whose descriptors share (network, channel,       *)
(* namespace) return the same Entry instance, whatever the other fields of *)
(* the descriptors, and no two Entry instances are ever created for one    *)
(* triple.                                                                 *)
(***************************************************************************)
C1_SameTripleSameEntry ==
    /\ \A p, q \in returned : Triple(p[1]) = Triple(q[1]) => p[2] = q[2]
    /\ \A i, j \in DOMAIN heap : Triple(heap[i].TMS) = Triple(heap[j].TMS) => i = j

\* two calls with the same triple and different drivers have returned
C1_Witness ==
    \E p, q \in returned :
        /\ Triple(p[1]) = Triple(q[1])
        /\ p[1].Driver # q[1].Driver
        /\ p[2] = q[2]

(***************************************************************************)
(* C2: two GetEntry calls whose descriptors differ in network, channel or  *)
(* namespace return distinct Entry instances, so that what is stored for   *)
(* one TMS is not visible through the other.                               *)
(***************************************************************************)
C2_DistinctTriplesDistinctEntries ==
    \A p, q \in returned : Triple(p[1]) # Triple(q[1]) => p[2] # q[2]

(***************************************************************************)
(* C3: in every wallet stored in an Entry, each non-empty role sequence    *)
(* has exactly one record with Default = TRUE, and it is the last one.     *)
(***************************************************************************)
OneDefaultLast(ids) ==
    Len(ids) > 0 =>
        /\ ids[Len(ids)].Default
        /\ \A i \in 1..(Len(ids) - 1) : ~ids[i].Default

C3_OneDefaultLast ==
    \A e \in DOMAIN heap, n \in NodeNames :
        heap[e].Wallets[n] # Nil =>
            \A role \in Roles : OneDefaultLast(RoleSeq(heap[e].Wallets[n], role))

\* a completed run has stored a wallet with three owner records
C3_Witness ==
    \E k \in Keys, n \in NodeNames :
        /\ GeneratedByLast(n)
        /\ last.fail.step = "none"
        /\ Key(last.tms) = k
        /\ Len(WalletOf(k, n).Owners) = 3

(***************************************************************************)
(* C4: when GenerateCryptoMaterial completes for a node, a multi role      *)
(* (Issuer, Owner) with N >= 1 configured names holds N+1 records: those   *)
(* of the configured names in their order, then the node's own; an enabled *)
(* single role (Auditor, Certifier) holds the node's own record alone.     *)
(***************************************************************************)
MultiRoleAsConfigured(ids, names, node) ==
    Len(names) >= 1 =>
        /\ Len(ids) = Len(names) + 1
        /\ \A i \in 1..Len(names) : ids[i].ID = names[i]
        /\ ids[Len(names) + 1].ID = ID(node)

SingleRoleAsConfigured(ids, enabled, node) ==
    enabled => Len(ids) = 1 /\ ids[1].ID = node.Name

C4_RoleSequences ==
    \A n \in NodeNames :
        GeneratedByLast(n) =>
            LET w == WalletOf(Key(last.tms), n)
                node == NodeNamed(n)
            IN  /\ MultiRoleAsConfigured(w.Issuers, node.Issuers, node)
                /\ MultiRoleAsConfigured(w.Owners, node.Owners, node)
                /\ SingleRoleAsConfigured(w.Auditors, node.Auditor, node)
                /\ SingleRoleAsConfigured(w.Certifiers, node.Certifier, node)

\* the scenario of the specification: issuers = [alice], no owners, auditor
C4_Witness ==
    /\ GeneratedByLast("org1peer")
    /\ LET w == WalletOf(Key(last.tms), "org1peer") IN
        /\ Len(w.Issuers) = 2
        /\ w.Issuers[1].ID = "alice"
        /\ w.Issuers[2].ID = "org1peer" /\ w.Issuers[2].Default
        /\ w.Owners = <<>>
        /\ Len(w.Auditors) = 1 /\ w.Auditors[1].ID = "org1peer"
        /\ w.Certifiers = <<>>

(***************************************************************************)
(* C5: a run of GenerateArtifacts for a driver without a public parameters *)
(* generator neither creates the public parameters directory nor writes a  *)
(* public parameters file nor sets the contract descriptor of the Entry.   *)
(***************************************************************************)
C5_NoGeneratorNoWrite ==
    [][(/\ nops' = nops + 1
        /\ last'.op = "GenerateArtifacts"
        /\ ~HasPublicParamsGenerator(last'.tms.Driver))
       => /\ ppDir' = ppDir
          /\ files' = files
          /\ TCCIn(Entries', heap', Key(last'.tms)) = TCCOf(Key(last'.tms))
          /\ Range(last'.steps) \cap {"Generate", "MkdirAll", "WriteFile", "TCC"} = {}]_vars

\* such a run got as far as the generator lookup: every wallet is generated
C5_Witness ==
    /\ last.op = "GenerateArtifacts"
    /\ ~HasPublicParamsGenerator(last.tms.Driver)
    /\ last.fail.step = "none"
    /\ NodeNames \subseteq Range(last.steps)
    /\ ~ppDir
    /\ \A f \in Paths : files[f] = Nil
    /\ TCCOf(Key(last.tms)) = Nil

\* every role configured for node has records in the wallet w
Populated(w, node) ==
    w # Nil /\ \A role \in ConfiguredRoles(node) : Len(RoleSeq(w, role)) > 0

\* the Entry under key k holds a populated wallet for every node of the topology
WalletsPopulatedIn(E, H, k) ==
    \A n \in NodeNames : Populated(WalletIn(E, H, k, n), NodeNamed(n))

(***************************************************************************)
(* C6: a run of GenerateArtifacts that fails while the identities of a     *)
(* node are generated leaves no empty or partially populated wallet for    *)
(* that node in Entry.Wallets.                                             *)
(***************************************************************************)
C6_NoPartialWallet ==
    (last.op = "GenerateArtifacts" /\ last.fail.step = "Wallet") =>
        LET n == Nodes[last.fail.node].Name
            w == WalletOf(Key(last.tms), n)
        IN  w = Nil \/ Populated(w, NodeNamed(n))

(***************************************************************************)
(* C7: when a step of GenerateArtifacts (crypto setup, generation of the   *)
(* public parameters, creation of the directory, write of the file,        *)
(* preparation of the chaincode) reports an error, no later step runs and  *)
(* Entry.TCC is not assigned.                                              *)
(***************************************************************************)
ErrorSteps == {"Setup", "Generate", "MkdirAll", "WriteFileOpen", "WriteFile", "Chaincode"}

\* the steps that must not have completed when step fails
NotCompleted(step) ==
    CASE step = "Setup" ->
            {"Setup", "Generate", "MkdirAll", "WriteFile", "Chaincode", "TCC"} \cup NodeNames
      [] step = "Generate" -> {"Generate", "MkdirAll", "WriteFile", "Chaincode", "TCC"}
      [] step = "MkdirAll" -> {"MkdirAll", "WriteFile", "Chaincode", "TCC"}
      [] step \in {"WriteFileOpen", "WriteFile"} -> {"WriteFile", "Chaincode", "TCC"}
      [] step = "Chaincode" -> {"Chaincode", "TCC"}

C7_EveryStepFatal ==
    [][(/\ nops' = nops + 1
        /\ last'.op = "GenerateArtifacts"
        /\ last'.fail.step \in ErrorSteps)
       => LET k == Key(last'.tms)
              step == last'.fail.step
          IN  /\ Range(last'.steps) \cap NotCompleted(step) = {}
              /\ TCCIn(Entries', heap', k) = TCCOf(k)
              /\ step = "Setup" =>
                    \A n \in NodeNames : WalletIn(Entries', heap', k, n) = WalletOf(k, n)
              /\ step \in {"Setup", "Generate"} => ppDir' = ppDir
              /\ step \in {"Setup", "Generate", "MkdirAll", "WriteFileOpen"} => files' = files]_vars

\* the preparation of the chaincode failed after the file was written
C7_Witness ==
    /\ last.op = "GenerateArtifacts"
    /\ last.fail.step = "Chaincode"
    /\ files[PublicParametersFile(last.tms)] = Generate(last.tms,
           <<Setup(last.tms)>> \o last.tms.PublicParamsGenArgs)
    /\ TCCOf(Key(last.tms)) = Nil

(***************************************************************************)
(* C8: the stage of an Entry never goes back: once every node has its      *)
(* populated wallet the wallets are not reset, and once the contract       *)
(* descriptor is set it is not unset, whatever handler runs next.          *)
(***************************************************************************)
C8_StageMonotonic ==
    [][\A k \in Keys :
          /\ WalletsPopulatedIn(Entries, heap, k) => WalletsPopulatedIn(Entries', heap', k)
          /\ TCCOf(k) # Nil => TCCIn(Entries', heap', k) # Nil]_vars

(***************************************************************************)
(* C9: once GenerateCryptoMaterial has completed for a node and a TMS, no  *)
(* later handler call replaces or changes the wallet stored for the node.  *)
(***************************************************************************)
C9_WalletCreatedOnce ==
    [][\A k \in Keys, n \in NodeNames :
          Populated(WalletOf(k, n), NodeNamed(n)) =>
              WalletIn(Entries', heap', k, n) = WalletOf(k, n)]_vars

(***************************************************************************)
(* C10: the descriptor an Entry holds is the one of the call that created  *)
(* the Entry, and no later call with another descriptor of the same key    *)
(* changes it.                                                             *)
(***************************************************************************)
C10_FirstWriteWins ==
    [][\A k \in Keys :
          /\ Entries[k] # 0 =>
                /\ Entries'[k] = Entries[k]
                /\ heap'[Entries'[k]].TMS = heap[Entries[k]].TMS
          /\ (Entries[k] = 0 /\ Entries'[k] # 0) =>
                heap'[Entries'[k]].TMS = last'.tms]_vars

\* a call with another descriptor of the key has found the Entry
C10_Witness ==
    /\ last.op \in {"GetEntry", "GenerateCryptoMaterial", "GenerateArtifacts"}
    /\ Entries[Key(last.tms)] # 0
    /\ heap[Entries[Key(last.tms)]].TMS # last.tms
    /\ \E p \in returned : p[1] = heap[Entries[Key(last.tms)]].TMS
(***************************************************************************)
(* C11: after a run of GenerateArtifacts that succeeded, the file at       *)
(* PublicParametersFile(tms) holds exactly the bytes the public parameters *)
(* generator returned in that run.                                         *)
(***************************************************************************)
\* the last call is a run of GenerateArtifacts that went to its end
Succeeded ==
    /\ last.op = "GenerateArtifacts"
    /\ last.steps[Len(last.steps)] = "TCC"

C11_PublicParamsRoundTrip ==
    Succeeded =>
        /\ last.ppRaw # Nil
        /\ files[PublicParametersFile(last.tms)] = last.ppRaw

\* the second call for a descriptor is a run that succeeded
C11_Witness ==
    /\ Succeeded
    /\ nops = 2
    /\ last.ppRaw.args # <<>>
    /\ files[PublicParametersFile(last.tms)] # Truncated
    /\ \A p \in returned : p[1] = last.tms

(***************************************************************************)
(* C12: a Bind(a, b) that follows a Bind(a, b) that returned no error      *)
(* leaves the identity provider as it was and returns no error, and after  *)
(* a Bind(a, b) that returned no error GetSigner(a) and GetAuditInfo(a)    *)
(* return what GetSigner(b) and GetAuditInfo(b) return.                    *)
(***************************************************************************)
C12_BindIdempotentRedirecting ==
    [][idpLast'.op = "Bind" =>
          /\ idpLast'.again => idp' = idp /\ ~idpLast'.err
          /\ ~idpLast'.err =>
                /\ GetSigner(idp', idpLast'.id) = GetSigner(idp', idpLast'.longTerm)
                /\ GetAuditInfo(idp', idpLast'.id) =
                       GetAuditInfo(idp', idpLast'.longTerm)]_vars

\* an identity with a signer of its own was bound twice to another one
C12_Witness ==
    /\ idpLast.again
    /\ ~idpLast.err
    /\ idpLast.id # idpLast.longTerm
    /\ GetSigner(idp, idpLast.id) = [signer |-> idpLast.longTerm]
    /\ GetAuditInfo(idp, idpLast.id) = [audit |-> idpLast.longTerm]
    /\ \A id \in Identities \ {idpLast.id} : GetSigner(idp, id) = [signer |-> id]

(***************************************************************************)
(* C13: no handler call removes a key from Entries or binds a key to       *)
(* another Entry instance: the set of keys only grows, and so does the set *)
(* of instances.                                                           *)
(***************************************************************************)
RegisteredKeys == {k \in Keys : Entries[k] # 0}

C13_EntriesOnlyGrow ==
    [][/\ \A k \in RegisteredKeys : Entries'[k] = Entries[k]
       /\ Len(heap') >= Len(heap)
       /\ \A k \in Keys : Entries'[k] \in 0..Len(heap')]_vars

\* a second key was registered next to the first, by a run of GenerateArtifacts
C13_Witness ==
    /\ RegisteredKeys = Keys
    /\ Entries[Key(last.tms)] = 2
    /\ last.op = "GenerateArtifacts"

(***************************************************************************)
(* C14: a run of GenerateArtifacts completes its steps in the order Setup, *)
(* the wallet of every node in the order of the topology, the generation   *)
(* of the public parameters, the write of the file, the assignment of      *)
(* Entry.TCC; when a run has assigned Entry.TCC, the Entry holds a wallet  *)
(* this run generated for every node and the file is written.              *)
(***************************************************************************)
StepOrder ==
    <<"GetEntry", "Setup">> \o [i \in 1..Len(Nodes) |-> Nodes[i].Name]
        \o <<"Generate", "MkdirAll", "WriteFile", "Chaincode", "TCC">>

IsPrefix(s, t) == Len(s) <= Len(t) /\ s = SubSeq(t, 1, Len(s))

C14_StepOrder ==
    last.op = "GenerateArtifacts" =>
        /\ IsPrefix(last.steps, StepOrder)
        /\ "TCC" \in Range(last.steps) =>
              /\ last.steps = StepOrder
              /\ \A n \in NodeNames :
                    LET w == WalletOf(Key(last.tms), n) IN
                    /\ Populated(w, NodeNamed(n))
                    /\ w.ptr = <<nops, n>>
              /\ files[PublicParametersFile(last.tms)] \notin {Nil, Truncated}
              /\ TCCOf(Key(last.tms)) # Nil

\* the first call of the handler is a run that assigned Entry.TCC
C14_Witness ==
    /\ nops = 1
    /\ last.op = "GenerateArtifacts"
    /\ TCCOf(Key(last.tms)) # Nil
    /\ \A n \in NodeNames : WalletOf(Key(last.tms), n) # Nil

(***************************************************************************)
(* C15: in every wallet the handler has stored for a node, the sequence of *)
(* a role the node is not configured for is empty (the generator returns a *)
(* credential for every name it is called with, and every credential it    *)
(* returns is appended, so that the generator was not called for the       *)
(* role), and a call whose generator calls all return ends without error.  *)
(***************************************************************************)
UnconfiguredRoles(node) == Roles \ ConfiguredRoles(node)

C15_UnconfiguredRoleEmpty ==
    /\ \A e \in DOMAIN heap, n \in NodeNames :
          heap[e].Wallets[n] # Nil =>
              \A role \in UnconfiguredRoles(NodeNamed(n)) :
                  RoleSeq(heap[e].Wallets[n], role) = <<>>
    /\ (last.op = "GenerateCryptoMaterial" /\ last.fail = NoFailure) =>
          /\ last.steps = <<"GetEntry", last.node>>
          /\ WalletOf(Key(last.tms), last.node).ptr = <<nops, last.node>>

\* a call generated the wallet of a node without owner and certifier
\* identities, and ended without error
C15_Witness ==
    /\ last.op = "GenerateCryptoMaterial"
    /\ last.fail = NoFailure
    /\ UnconfiguredRoles(NodeNamed(last.node)) = {"Owner", "Certifier"}
    /\ LET w == WalletOf(Key(last.tms), last.node) IN
        /\ w.Owners = <<>> /\ w.Certifiers = <<>>
        /\ Len(w.Issuers) = 2 /\ Len(w.Auditors) = 1

(***************************************************************************)
(* C16: calls of GenerateCryptoMaterial for the distinct nodes of the      *)
(* topology and one descriptor, run side by side, all return, and when     *)
(* they have the Entry of the descriptor holds for every node the wallet   *)
(* the calls leave when they run one after the other.                      *)
(***************************************************************************)
AllReturned == \A g \in NodeNames : par.pc[g] = "done"

C16_InterleavingIndependent ==
    /\ ~par.crashed
    /\ (par.tms # Nil /\ AllReturned) =>
          \A n \in NodeNames :
              WalletOf(Key(par.tms), n) =
                  WalletAt(<<"go", n>>, par.tms.Driver, NodeNamed(n), "none")

(***************************************************************************)
(* C17: the public parameters generator is called with the root handle     *)
(* that Setup returned in the same run, followed by the elements of        *)
(* tms.PublicParamsGenArgs in their order, and with nothing after them.    *)
(***************************************************************************)
C17_GeneratorArguments ==
    (last.op = "GenerateArtifacts" /\ "Generate" \in Range(last.steps)) =>
        LET given == last.tms.PublicParamsGenArgs IN
        /\ last.root # Nil
        /\ Len(last.args) = 1 + Len(given)
        /\ last.args[1] = last.root
        /\ \A i \in 1..Len(given) : last.args[i + 1] = given[i]

\* the generator was called for a descriptor with two arguments of its own
C17_Witness ==
    /\ last.op = "GenerateArtifacts"
    /\ "Generate" \in Range(last.steps)
    /\ Len(last.tms.PublicParamsGenArgs) = 2
    /\ Len(last.args) = 3

(***************************************************************************)
(* C18: a call of GenerateCryptoMaterial for the node n and the descriptor *)
(* t writes Wallets[n] of the Entry of the key of t and nothing else: the  *)
(* wallets of the other nodes, the TMS and the TCC of that Entry (the ones *)
(* of a new Entry when the call registers it), the Entries of the other    *)
(* keys and the files stay as they are.                                    *)
(***************************************************************************)
C18_WalletGenerationFrame ==
    [][(nops' = nops + 1 /\ last'.op = "GenerateCryptoMaterial") =>
          LET k == Key(last'.tms) IN
          /\ \A n \in NodeNames \ {last'.node} :
                WalletIn(Entries', heap', k, n) = WalletOf(k, n)
          /\ TCCIn(Entries', heap', k) = TCCOf(k)
          /\ IF Entries[k] # 0
             THEN /\ Entries'[k] = Entries[k]
                  /\ heap'[Entries[k]].TMS = heap[Entries[k]].TMS
             ELSE heap'[Entries'[k]].TMS = last'.tms
          /\ \A k2 \in Keys \ {k} : Entries'[k2] = Entries[k2]
          /\ \A e \in DOMAIN heap : e # Entries'[k] => heap'[e] = heap[e]
          /\ files' = files /\ ppDir' = ppDir]_vars

\* the wallet of a node was generated again in an Entry that holds the
\* wallet of the other node and a TCC
C18_Witness ==
    /\ last.op = "GenerateCryptoMaterial"
    /\ nops = 2
    /\ TCCOf(Key(last.tms)) # Nil
    /\ \A n \in NodeNames : WalletOf(Key(last.tms), n) # Nil
    /\ WalletOf(Key(last.tms), last.node).ptr = <<2, last.node>>

(***************************************************************************)
(* C19: after every handler call, every key of Entries is bound to an      *)
(* Entry that exists, has a Wallets map, and stores a descriptor whose     *)
(* Network+Channel+Namespace is the key; every reference GetEntry has      *)
(* returned is that of an Entry, the one registered under the key of the   *)
(* descriptor; and a GenerateExtension for a descriptor whose key has no   *)
(* Entry registers one with the descriptor, no wallet and no TCC.          *)
(***************************************************************************)
WellFormed ==
    /\ \A k \in Keys :
          Entries[k] # 0 =>
              /\ Entries[k] \in DOMAIN heap
              /\ DOMAIN heap[Entries[k]].Wallets = NodeNames
              /\ Key(heap[Entries[k]].TMS) = k
    /\ \A p \in returned :
          /\ p[2] \in DOMAIN heap
          /\ Entries[Key(p[1])] = p[2]

C19_RegistryWellFormed ==
    [][/\ WellFormed'
       /\ (/\ nops' = nops + 1
           /\ last'.op = "GenerateExtension"
           /\ Entries[Key(last'.tms)] = 0)
          => /\ Entries'[Key(last'.tms)] = Len(heap) + 1
             /\ heap' = Append(heap, [TMS |-> last'.tms, TCC |-> Nil,
                                      Wallets |-> [n \in NodeNames |-> Nil]])]_vars

\* the first call of the handler is a GenerateExtension, which registered
\* an Entry with no wallet and no TCC
C19_Witness ==
    /\ nops = 1
    /\ last.op = "GenerateExtension"
    /\ Entries[Key(last.tms)] = 1
    /\ heap[1].TMS = last.tms
    /\ heap[1].TCC = Nil
    /\ \A n \in NodeNames : heap[1].Wallets[n] = Nil

====
